---- MODULE Spec2Model ----
(***************************************************************************)
(* Model of the emission-calculation engine of carbon_calculator.py.       *)
(*                                                                         *)
(* Numbers.  The engine computes on Python floats.  The model computes on  *)
(* exact signed rationals num/den whose numerator and denominator          *)
(* are arbitrary-precision naturals (little-endian limbs in base 10^4), so *)
(* that no product of the engine's constants overflows.  Rounding of IEEE  *)
(* doubles is therefore abstracted away: equalities stated below are exact *)
(* equalities of real numbers.                                             *)
(***************************************************************************)
EXTENDS Integers, Sequences, FiniteSets, TLC

----------------------------------------------------------------------------
(* Arbitrary-precision naturals *)

Base == 100 * 100

RECURSIVE BN(_)
BN(n) == IF n = 0 THEN <<>> ELSE <<n % Base>> \o BN(n \div Base)

RECURSIVE BAddC(_, _, _)
BAddC(a, b, c) ==
    IF a = <<>> /\ b = <<>>
    THEN (IF c = 0 THEN <<>> ELSE <<c>>)
    ELSE LET x == IF a = <<>> THEN 0 ELSE Head(a)
             y == IF b = <<>> THEN 0 ELSE Head(b)
             s == x + y + c
         IN  <<s % Base>> \o BAddC(IF a = <<>> THEN <<>> ELSE Tail(a),
                                   IF b = <<>> THEN <<>> ELSE Tail(b),
                                   s \div Base)

BAdd(a, b) == BAddC(a, b, 0)

RECURSIVE BMulSmallC(_, _, _)
BMulSmallC(a, k, c) ==
    IF a = <<>>
    THEN (IF c = 0 THEN <<>> ELSE <<c>>)
    ELSE LET p == Head(a) * k + c
         IN  <<p % Base>> \o BMulSmallC(Tail(a), k, p \div Base)

RECURSIVE BMul(_, _)
BMul(a, b) ==
    IF a = <<>> \/ b = <<>>
    THEN <<>>
    ELSE LET rest == BMul(a, Tail(b))
         IN  BAdd(IF Head(b) = 0 THEN <<>> ELSE BMulSmallC(a, Head(b), 0),
                  IF rest = <<>> THEN <<>> ELSE <<0>> \o rest)

RECURSIVE BLtFrom(_, _, _)
BLtFrom(a, b, k) ==
    IF k = 0 THEN FALSE
    ELSE IF a[k] # b[k] THEN a[k] < b[k]
    ELSE BLtFrom(a, b, k - 1)

BLt(a, b) ==
    IF Len(a) # Len(b) THEN Len(a) < Len(b) ELSE BLtFrom(a, b, Len(a))

\* a - b for a >= b.
RECURSIVE BSubC(_, _, _)
BSubC(a, b, c) ==
    IF a = <<>> THEN <<>>
    ELSE LET y == IF b = <<>> THEN 0 ELSE Head(b)
             s == Head(a) - y - c
         IN  <<IF s < 0 THEN s + Base ELSE s>> \o
             BSubC(Tail(a), IF b = <<>> THEN <<>> ELSE Tail(b), IF s < 0 THEN 1 ELSE 0)

RECURSIVE BTrim(_)
BTrim(a) ==
    IF a = <<>> THEN <<>>
    ELSE IF a[Len(a)] = 0 THEN BTrim(SubSeq(a, 1, Len(a) - 1))
    ELSE a

BSub(a, b) == BTrim(BSubC(a, b, 0))

----------------------------------------------------------------------------
(* Exact rationals standing for the engine's floats *)

RECURSIVE Pow10(_)
Pow10(k) == IF k = 0 THEN BN(1) ELSE BMulSmallC(Pow10(k - 1), 10, 0)

\* A number is sign and magnitude: neg is set only on a non-zero magnitude.
RInt(n) == [num |-> BN(n), den |-> BN(1), neg |-> FALSE]

\* The decimal literal n * 10^-places, e.g. RDec(82, 2) is 0.82.
RDec(n, places) == [num |-> BN(n), den |-> Pow10(places), neg |-> FALSE]

RZero == RInt(0)

\* Unary minus.
RNeg(a) == [a EXCEPT !.neg = (a.num # <<>>) /\ ~a.neg]

\* The magnitudes a.num/a.den and b.num/b.den brought to one denominator.
RAlign(a, b) ==
    IF a.den = b.den
    THEN [x |-> a.num, y |-> b.num, den |-> a.den]
    ELSE [x |-> BMul(a.num, b.den), y |-> BMul(b.num, a.den),
          den |-> BMul(a.den, b.den)]

RAdd(a, b) ==
    LET m == RAlign(a, b)
    IN  IF a.neg = b.neg
        THEN [num |-> BAdd(m.x, m.y), den |-> m.den, neg |-> a.neg]
        ELSE IF m.x = m.y
        THEN [num |-> <<>>, den |-> m.den, neg |-> FALSE]
        ELSE IF BLt(m.y, m.x)
        THEN [num |-> BSub(m.x, m.y), den |-> m.den, neg |-> a.neg]
        ELSE [num |-> BSub(m.y, m.x), den |-> m.den, neg |-> b.neg]

RMul(a, b) ==
    LET n == BMul(a.num, b.num)
    IN  [num |-> n, den |-> BMul(a.den, b.den), neg |-> (n # <<>>) /\ (a.neg # b.neg)]

\* b is non-zero wherever the engine divides.
RDiv(a, b) ==
    LET n == BMul(a.num, b.den)
    IN  [num |-> n, den |-> BMul(a.den, b.num), neg |-> (n # <<>>) /\ (a.neg # b.neg)]

REq(a, b) == a.neg = b.neg /\ BMul(a.num, b.den) = BMul(b.num, a.den)

RLt(a, b) ==
    IF a.neg # b.neg THEN a.neg
    ELSE IF a.neg THEN BLt(BMul(b.num, a.den), BMul(a.num, b.den))
    ELSE BLt(BMul(a.num, b.den), BMul(b.num, a.den))

RLe(a, b) == RLt(a, b) \/ REq(a, b)

RIsZero(a) == a.num = <<>>

----------------------------------------------------------------------------
(* Constants Table *)

GWP_CH4 == RInt(28)
GWP_N2O == RInt(265)

DENSITY_DIESEL == RDec(82, 2)
DENSITY_PETROL == RDec(72, 2)

CALORIFIC_VALUE_NATURAL_GAS_MJ_M3 == RDec(380, 1)
CALORIFIC_VALUE_HEATING_OIL_MJ_KG == RDec(426, 1)
CALORIFIC_VALUE_DIESEL_MJ_KG == RDec(431, 1)
CALORIFIC_VALUE_PETROL_MJ_KG == RDec(443, 1)
CALORIFIC_VALUE_COAL_MJ_KG == RDec(240, 1)

EF_CO2_NATURAL_GAS == RDec(561, 1)
EF_CO2_HEATING_OIL == RDec(741, 1)
EF_CO2_DIESEL == RDec(741, 1)
EF_CO2_PETROL == RDec(693, 1)
EF_CO2_COAL == RDec(946, 1)

EF_CH4_NATURAL_GAS == RDec(1, 4)
EF_CH4_HEATING_OIL == RDec(3, 5)
EF_CH4_DIESEL == RDec(3, 5)
EF_CH4_PETROL == RDec(3, 5)
EF_CH4_COAL == RDec(1, 3)

EF_N2O_NATURAL_GAS == RDec(2, 5)
EF_N2O_HEATING_OIL == RDec(6, 5)
EF_N2O_DIESEL == RDec(6, 5)
EF_N2O_PETROL == RDec(5, 5)
EF_N2O_COAL == RDec(1, 4)

GWP_R407C == RInt(1624)
GWP_R32 == RInt(677)
GWP_R410A == RInt(1924)

FUEL_CONSUMPTION_PASSENGER_CAR_DIESEL_G_KM == RInt(60)

----------------------------------------------------------------------------
(* Python values *)

\* Optional[T]: None is the empty sequence, a present value v is <<v>>.
None == <<>>
Some(v) == <<v>>

\* Truthiness of an Optional[float]: None and 0.0 are falsy.
Truthy(x) == x # None /\ ~RIsZero(x[1])

\* The expression `x or d` on an Optional[float] x and a float d.
PyOr(x, d) == IF Truthy(x) THEN x ELSE Some(d)

\* A raised ValueError, and a value returned normally.
Raise(msg) == [ok |-> FALSE, err |-> msg]
Return(v) == [ok |-> TRUE, val |-> v]

\* str.lower() on a string held as a sequence of one-character strings.
UpperLetters ==
    <<"A", "B", "C", "D", "E", "F", "G", "H", "I", "J", "K", "L", "M",
      "N", "O", "P", "Q", "R", "S", "T", "U", "V", "W", "X", "Y", "Z">>
LowerLetters ==
    <<"a", "b", "c", "d", "e", "f", "g", "h", "i", "j", "k", "l", "m",
      "n", "o", "p", "q", "r", "s", "t", "u", "v", "w", "x", "y", "z">>

LowerChar(c) ==
    IF \E k \in 1..Len(UpperLetters) : UpperLetters[k] = c
    THEN LowerLetters[CHOOSE k \in 1..Len(UpperLetters) : UpperLetters[k] = c]
    ELSE c

lower_Identity(s) == s

lower(s) == [k \in 1..Len(s) |-> LowerChar(s[k])]

----------------------------------------------------------------------------
(* CO2e Aggregator *)

calculate_co2e_SwappedGwp(mass_co2, mass_ch4, mass_n2o) ==
    RAdd(RAdd(mass_co2, RMul(mass_ch4, GWP_N2O)), RMul(mass_n2o, GWP_CH4))

calculate_co2e(mass_co2, mass_ch4, mass_n2o) ==
    RAdd(RAdd(mass_co2, RMul(mass_ch4, GWP_CH4)), RMul(mass_n2o, GWP_N2O))

----------------------------------------------------------------------------
(* Scope 1: one combustion record *)

FuelType == {"Natural Gas", "Heating Oil", "Diesel", "Petrol", "Coal", "Electricity"}
Unit == {"m3", "l", "t", "kWh", "km"}

\* Line 158: Energy(GJ) = Volume(l) x Density(kg/l) x CalorificValue(MJ/kg) / 1000.
LitersToGJ_NoDensity(amount, density_kg_l, calorific_value_mj_kg) ==
    RDiv(RMul(amount, calorific_value_mj_kg), RInt(1000))

LitersToGJ(amount, density_kg_l, calorific_value_mj_kg) ==
    RDiv(RMul(RMul(amount, density_kg_l), calorific_value_mj_kg), RInt(1000))

\* Lines 143-193: density and calorific value after default resolution, and
\* the energy in GJ, or the ValueError of the branch.
CombustionEnergy(input_data) ==
    LET cv0 == input_data.calorific_value_mj_kg
        d0  == input_data.density_kg_l
    IN
    IF input_data.unit = "l" THEN
        LET d == IF input_data.fuel_type = "Diesel" THEN PyOr(d0, DENSITY_DIESEL)
                 ELSE IF input_data.fuel_type = "Petrol" THEN PyOr(d0, DENSITY_PETROL)
                 ELSE IF input_data.fuel_type = "Heating Oil" THEN PyOr(d0, DENSITY_DIESEL)
                 ELSE d0
            cv == IF input_data.fuel_type = "Diesel"
                     THEN PyOr(cv0, CALORIFIC_VALUE_DIESEL_MJ_KG)
                  ELSE IF input_data.fuel_type = "Petrol"
                     THEN PyOr(cv0, CALORIFIC_VALUE_PETROL_MJ_KG)
                  ELSE IF input_data.fuel_type = "Heating Oil"
                     THEN PyOr(cv0, CALORIFIC_VALUE_HEATING_OIL_MJ_KG)
                  ELSE cv0
        IN  IF d = None \/ cv = None
            THEN Raise("Density or Calorific Value missing for liquid fuel type")
            ELSE Return(LitersToGJ(input_data.amount, d[1], cv[1]))
    ELSE IF input_data.unit = "m3" /\ input_data.fuel_type = "Natural Gas" THEN
        LET cv == PyOr(cv0, CALORIFIC_VALUE_NATURAL_GAS_MJ_M3)
        IN  IF cv = None
            THEN Raise("Calorific Value missing for Natural Gas")
            ELSE Return(RMul(input_data.amount, RDiv(cv[1], RInt(1000))))
    ELSE IF input_data.unit = "t" /\ input_data.fuel_type = "Coal" THEN
        LET cv == PyOr(input_data.calorific_value_mj_kg, CALORIFIC_VALUE_COAL_MJ_KG)
        IN  IF cv = None
            THEN Raise("Calorific Value missing for Coal")
            ELSE Return(RMul(RMul(input_data.amount, RInt(1000)),
                             RDiv(cv[1], RInt(1000))))
    ELSE IF input_data.unit = "km" /\ input_data.source = "Fleet" THEN
        IF input_data.distance_km = None \/ input_data.vehicle_type = None
        THEN Raise("distance_km and vehicle_type are required for distance-based fleet calculation.")
        ELSE
        LET estimated_fuel_kg ==
                RMul(input_data.distance_km[1],
                     RDiv(FUEL_CONSUMPTION_PASSENGER_CAR_DIESEL_G_KM, RInt(1000)))
            d  == PyOr(d0, DENSITY_DIESEL)
            cv == PyOr(cv0, CALORIFIC_VALUE_DIESEL_MJ_KG)
        IN  IF d = None \/ cv = None
            THEN Raise("Density or Calorific Value missing for estimated liquid fuel for vehicle type")
            ELSE LET estimated_fuel_liters == RDiv(estimated_fuel_kg, d[1])
                 IN  Return(LitersToGJ(estimated_fuel_liters, d[1], cv[1]))
    ELSE Raise("Unsupported unit or fuel type combination for combustion calculation, or missing distance/vehicle type for fleet method 2.")

\* Lines 195-222: the three emission factors after default resolution.
CombustionFactors(input_data) ==
    LET c0 == input_data.emission_factor_co2_kg_gj
        h0 == input_data.emission_factor_ch4_kg_gj
        n0 == input_data.emission_factor_n2o_kg_gj
        ft == input_data.fuel_type
        ef == IF ft = "Natural Gas" THEN
                  <<PyOr(c0, EF_CO2_NATURAL_GAS), PyOr(h0, EF_CH4_NATURAL_GAS),
                    PyOr(n0, EF_N2O_NATURAL_GAS)>>
              ELSE IF ft = "Heating Oil" THEN
                  <<PyOr(c0, EF_CO2_HEATING_OIL), PyOr(h0, EF_CH4_HEATING_OIL),
                    PyOr(n0, EF_N2O_HEATING_OIL)>>
              ELSE IF ft = "Diesel" THEN
                  <<PyOr(c0, EF_CO2_DIESEL), PyOr(h0, EF_CH4_DIESEL),
                    PyOr(n0, EF_N2O_DIESEL)>>
              ELSE IF ft = "Petrol" THEN
                  <<PyOr(c0, EF_CO2_PETROL), PyOr(h0, EF_CH4_PETROL),
                    PyOr(n0, EF_N2O_PETROL)>>
              ELSE IF ft = "Coal" THEN
                  <<PyOr(c0, EF_CO2_COAL), PyOr(h0, EF_CH4_COAL),
                    PyOr(n0, EF_N2O_COAL)>>
              ELSE <<c0, h0, n0>>
    IN  IF ef[1] = None \/ ef[2] = None \/ ef[3] = None
        THEN Raise("Emission factors missing for fuel type")
        ELSE Return([ef_co2 |-> ef[1][1], ef_ch4 |-> ef[2][1], ef_n2o |-> ef[3][1]])

calculate_combustion_emissions(input_data) ==
    LET e == CombustionEnergy(input_data)
    IN  IF ~e.ok THEN e
        ELSE
        LET f == CombustionFactors(input_data)
        IN  IF ~f.ok THEN f
            ELSE
            LET energy_gj == e.val
                mass_co2 == RMul(energy_gj, f.val.ef_co2)
                mass_ch4 == RMul(energy_gj, f.val.ef_ch4)
                mass_n2o == RMul(energy_gj, f.val.ef_n2o)
                co2e == calculate_co2e(mass_co2, mass_ch4, mass_n2o)
            IN  Return([source |-> input_data.source,
                        fuel_type |-> Some(input_data.fuel_type),
                        refrigerant_type |-> None,
                        co2e |-> co2e,
                        details |-> [energy_gj |-> energy_gj,
                                     mass_co2 |-> mass_co2,
                                     mass_ch4 |-> mass_ch4,
                                     mass_n2o |-> mass_n2o]])

----------------------------------------------------------------------------
(* Scope 1: one fugitive record *)

RefrigerantType == {"R407C", "R32", "R410A", "Custom"}

\* Lines 245-260: the GWP factor after default resolution, or the ValueError.
ResolveGwp_TableOnly(input_data) ==
    LET g0 == input_data.gwp_factor
        rt == input_data.refrigerant_type
    IN
    IF rt = "R407C" THEN Return(GWP_R407C)
    ELSE IF rt = "R32" THEN Return(GWP_R32)
    ELSE IF rt = "R410A" THEN Return(GWP_R410A)
    ELSE IF rt = "Custom" THEN
        (IF g0 = None
         THEN Raise("GWP factor is required for custom refrigerant type.")
         ELSE Return(g0[1]))
    ELSE Raise("Unsupported refrigerant type")

ResolveGwp(input_data) ==
    LET g0 == input_data.gwp_factor
        rt == input_data.refrigerant_type
        gwp_factor == IF rt = "R407C" THEN PyOr(g0, GWP_R407C)
                      ELSE IF rt = "R32" THEN PyOr(g0, GWP_R32)
                      ELSE IF rt = "R410A" THEN PyOr(g0, GWP_R410A)
                      ELSE g0
    IN
    IF rt \notin RefrigerantType
    THEN Raise("Unsupported refrigerant type")
    ELSE IF rt = "Custom" /\ g0 = None
    THEN Raise("GWP factor is required for custom refrigerant type.")
    ELSE IF gwp_factor = None
    THEN Raise("GWP factor could not be determined")
    ELSE Return(gwp_factor[1])

calculate_fugitive_emissions(input_data) ==
    LET g == ResolveGwp(input_data)
    IN  IF ~g.ok THEN g
        ELSE Return([source |-> input_data.source,
                     fuel_type |-> None,
                     refrigerant_type |-> Some(input_data.refrigerant_type),
                     co2e |-> RMul(input_data.amount_kg, g.val),
                     details |-> [amount_kg |-> input_data.amount_kg,
                                  gwp_factor |-> g.val]])

----------------------------------------------------------------------------
(* Python dicts: a dict is a function whose domain is its set of keys *)

EmptyDict == [k \in {} |-> RZero]

\* d.get(k, default)
DictGet(d, k, default) == IF k \in DOMAIN d THEN d[k] ELSE default

\* d[k] = v
DictSet(d, k, v) == [x \in (DOMAIN d) \cup {k} |-> IF x = k THEN v ELSE d[x]]

----------------------------------------------------------------------------
(* Scope 2 *)

EF_ELECTRICITY_KG_CO2_PER_MWH == RInt(698)
EF_DISTRICT_HEATING_KG_CO2_PER_GJ == RDec(9505, 2)

calculate_electricity_emissions(input_data) ==
    LET mwh == RDiv(input_data.amount_kwh, RInt(1000))
    IN  RMul(mwh, EF_ELECTRICITY_KG_CO2_PER_MWH)

calculate_district_heating_emissions(input_data) ==
    RMul(input_data.amount_gj, EF_DISTRICT_HEATING_KG_CO2_PER_GJ)

\* Lines 330-333: the electricity block, on the locals (total, breakdown).
Scope2Electricity(input_data, loc) ==
    IF input_data.electricity # None
    THEN LET electricity_emissions ==
                 calculate_electricity_emissions(input_data.electricity[1])
         IN  [total_co2_emissions |-> RAdd(loc.total_co2_emissions, electricity_emissions),
              breakdown |-> DictSet(loc.breakdown, "electricity", electricity_emissions)]
    ELSE loc

Scope2Heating_Overwrite(input_data, loc) ==
    IF input_data.district_heating # None
    THEN LET heating_emissions ==
                 calculate_district_heating_emissions(input_data.district_heating[1])
         IN  [total_co2_emissions |-> heating_emissions,
              breakdown |-> DictSet(loc.breakdown, "district_heating", heating_emissions)]
    ELSE loc

\* Lines 335-338: the district heating block.
Scope2Heating(input_data, loc) ==
    IF input_data.district_heating # None
    THEN LET heating_emissions ==
                 calculate_district_heating_emissions(input_data.district_heating[1])
         IN  [total_co2_emissions |-> RAdd(loc.total_co2_emissions, heating_emissions),
              breakdown |-> DictSet(loc.breakdown, "district_heating", heating_emissions)]
    ELSE loc

calculate_scope2_emissions(input_data) ==
    Scope2Heating(input_data,
        Scope2Electricity(input_data,
            [total_co2_emissions |-> RZero, breakdown |-> EmptyDict]))

----------------------------------------------------------------------------
(* Scope 3: the per-item calculators *)

KM_TO_MILES == RDec(621371, 6)
KG_TO_TONNES == RDec(1, 3)

EF_WATER_SUPPLY_KG_CO2E_PER_M3 == RDec(149, 3)
EF_PAPER_ECO_LABELED_KG_CO2E_PER_TONNE == RDec(7394, 1)
EF_PAPER_STANDARD_KG_CO2E_PER_TONNE == RDec(9194, 1)
EF_SOLID_WASTE_DISPOSAL_KG_CO2E_PER_TONNE == RDec(2129, 2)
EF_WASTEWATER_TREATMENT_KG_CO2E_PER_M3 == RDec(272, 3)

AIR_SH_CO2_KG_PER_MILE == RDec(15, 2)
AIR_SH_CH4_G_PER_MILE == RDec(1, 3)
AIR_SH_N2O_G_PER_MILE == RDec(1, 3)
AIR_MH_CO2_KG_PER_MILE == RDec(12, 2)
AIR_MH_CH4_G_PER_MILE == RDec(8, 4)
AIR_MH_N2O_G_PER_MILE == RDec(8, 4)
AIR_LH_CO2_KG_PER_MILE == RDec(10, 2)
AIR_LH_CH4_G_PER_MILE == RDec(5, 4)
AIR_LH_N2O_G_PER_MILE == RDec(5, 4)

EF_RAIL_CO2_KG_PER_KM == RDec(28, 3)
EF_RAIL_CH4_KG_PER_MILE == RDec(92, 7)
EF_RAIL_N2O_KG_PER_MILE == RDec(26, 7)

EF_TAXI_KG_CO2E_PER_KM == RDec(2, 1)
EF_BUS_KG_CO2E_PER_KM == RDec(1, 1)

km_to_miles(km) == RMul(km, KM_TO_MILES)

get_flight_haul_class_Inclusive(miles) ==
    IF RLe(miles, RInt(300)) THEN "Short Haul"
    ELSE IF RLe(miles, RInt(2300)) THEN "Medium Haul"
    ELSE "Long Haul"

get_flight_haul_class(miles) ==
    IF RLt(miles, RInt(300)) THEN "Short Haul"
    ELSE IF RLe(RInt(300), miles) /\ RLt(miles, RInt(2300)) THEN "Medium Haul"
    ELSE "Long Haul"

calculate_water_supply_emissions(input_data) ==
    RMul(input_data.volume_m3, EF_WATER_SUPPLY_KG_CO2E_PER_M3)

calculate_paper_usage_emissions(input_data) ==
    LET mass_tonnes == RMul(input_data.mass_kg, KG_TO_TONNES)
    IN  IF input_data.eco_labeled
        THEN RMul(mass_tonnes, EF_PAPER_ECO_LABELED_KG_CO2E_PER_TONNE)
        ELSE RMul(mass_tonnes, EF_PAPER_STANDARD_KG_CO2E_PER_TONNE)

calculate_solid_waste_emissions(input_data) ==
    LET mass_tonnes == RMul(input_data.mass_kg, KG_TO_TONNES)
    IN  RMul(mass_tonnes, EF_SOLID_WASTE_DISPOSAL_KG_CO2E_PER_TONNE)

calculate_wastewater_emissions(input_data) ==
    RMul(input_data.volume_m3, EF_WASTEWATER_TREATMENT_KG_CO2E_PER_M3)

\* Lines 457-468: the factor triple (CO2 kg/mile, CH4 g/mile, N2O g/mile).
AirFactors(haul_class) ==
    IF haul_class = "Short Haul"
    THEN <<AIR_SH_CO2_KG_PER_MILE, AIR_SH_CH4_G_PER_MILE, AIR_SH_N2O_G_PER_MILE>>
    ELSE IF haul_class = "Medium Haul"
    THEN <<AIR_MH_CO2_KG_PER_MILE, AIR_MH_CH4_G_PER_MILE, AIR_MH_N2O_G_PER_MILE>>
    ELSE <<AIR_LH_CO2_KG_PER_MILE, AIR_LH_CH4_G_PER_MILE, AIR_LH_N2O_G_PER_MILE>>

calculate_air_travel_emissions(input_data) ==
    LET distance_miles == km_to_miles(input_data.distance_km)
        haul_class == get_flight_haul_class(distance_miles)
        f == AirFactors(haul_class)
        mass_co2 == RMul(distance_miles, f[1])
        mass_ch4 == RDiv(RMul(distance_miles, f[2]), RInt(1000))
        mass_n2o == RDiv(RMul(distance_miles, f[3]), RInt(1000))
    IN  calculate_co2e(mass_co2, mass_ch4, mass_n2o)

calculate_rail_travel_emissions(input_data) ==
    LET co2_emissions_kg == RMul(input_data.distance_km, EF_RAIL_CO2_KG_PER_KM)
        distance_miles == km_to_miles(input_data.distance_km)
        mass_ch4 == RMul(distance_miles, EF_RAIL_CH4_KG_PER_MILE)
        mass_n2o == RMul(distance_miles, EF_RAIL_N2O_KG_PER_MILE)
        co2e_ch4_n2o == RAdd(RMul(mass_ch4, GWP_CH4), RMul(mass_n2o, GWP_N2O))
    IN  RAdd(co2_emissions_kg, co2e_ch4_n2o)

Str_taxi == <<"t", "a", "x", "i">>
Str_bus == <<"b", "u", "s">>

calculate_taxi_bus_travel_emissions(input_data) ==
    IF lower(input_data.vehicle_type) = Str_taxi
    THEN Return(RMul(input_data.distance_km, EF_TAXI_KG_CO2E_PER_KM))
    ELSE IF lower(input_data.vehicle_type) = Str_bus
    THEN Return(RMul(input_data.distance_km, EF_BUS_KG_CO2E_PER_KM))
    ELSE Raise("Unsupported vehicle type for taxi/bus")

----------------------------------------------------------------------------
(* Scope 1 and Scope 3 aggregation: the bodies of the loops *)

\* Lines 280-282 and 285-287: one pass of a Scope 1 loop over the locals
\* loc = [i, total_co2e, breakdown, pc, err], given the record's outcome.
\* An exception raised by the record's calculator leaves the function.
\* Lines 276-277: the locals of calculate_scope1_emissions at entry, whatever
\* an earlier call left behind.
Scope1Entry_KeepsTotals(loc) == [loc EXCEPT !.i = 0, !.pc = "running"]

Scope1Entry(loc) ==
    [loc EXCEPT !.i = 0, !.total_co2e = RZero, !.breakdown = <<>>, !.pc = "running"]

Scope1LoopBody_Overwrite(loc, result) ==
    IF result.ok
    THEN [loc EXCEPT !.i = @ + 1,
                     !.total_co2e = result.val.co2e,
                     !.breakdown = Append(@, result.val)]
    ELSE [loc EXCEPT !.pc = "raised", !.err = Some(result.err)]

Scope1LoopBody_SkipFailed(loc, result) ==
    IF result.ok
    THEN [loc EXCEPT !.i = @ + 1,
                     !.total_co2e = RAdd(@, result.val.co2e),
                     !.breakdown = Append(@, result.val)]
    ELSE [loc EXCEPT !.i = @ + 1]

Scope1LoopBody_Subtract(loc, result) ==
    IF result.ok
    THEN [loc EXCEPT !.i = @ + 1,
                     !.total_co2e = RAdd(@, RNeg(result.val.co2e)),
                     !.breakdown = Append(@, result.val)]
    ELSE [loc EXCEPT !.pc = "raised", !.err = Some(result.err)]

Scope1LoopBody(loc, result) ==
    IF result.ok
    THEN [loc EXCEPT !.i = @ + 1,
                     !.total_co2e = RAdd(@, result.val.co2e),
                     !.breakdown = Append(@, result.val)]
    ELSE [loc EXCEPT !.pc = "raised", !.err = Some(result.err)]

\* Lines 498-503: the locals of calculate_scope3_emissions at entry.
Scope3EmptyBreakdown ==
    [purchased_goods_services |-> EmptyDict,
     waste_generated |-> EmptyDict,
     business_travel |-> EmptyDict]

Scope3Entry(loc) ==
    [loc EXCEPT !.i = 0, !.total_co2e = RZero,
                !.breakdown = Scope3EmptyBreakdown, !.pc = "running"]

\* The two statements that follow each Scope 3 per-item calculation, e.g.
\* lines 509-510: add to the total, add to the subtype's entry of the group.
Scope3Accumulate_Assign(loc, group, subtype, emissions) ==
    [loc EXCEPT !.i = @ + 1,
                !.total_co2e = RAdd(@, emissions),
                !.breakdown[group] = DictSet(@, subtype, emissions)]

Scope3Accumulate(loc, group, subtype, emissions) ==
    [loc EXCEPT !.i = @ + 1,
                !.total_co2e = RAdd(@, emissions),
                !.breakdown[group] =
                    DictSet(@, subtype, RAdd(DictGet(@, subtype, RZero), emissions))]

\* Lines 506-514: one pass of the purchased-goods loop.
Scope3GoodsBody(loc, item) ==
    IF item.class = "WaterSupplyInput"
    THEN Scope3Accumulate(loc, "purchased_goods_services", "water_supply",
                          calculate_water_supply_emissions(item))
    ELSE IF item.class = "PaperUsageInput"
    THEN Scope3Accumulate(loc, "purchased_goods_services", "paper_usage",
                          calculate_paper_usage_emissions(item))
    ELSE [loc EXCEPT !.i = @ + 1]

\* Lines 517-525: one pass of the waste loop.
Scope3WasteBody(loc, item) ==
    IF item.class = "SolidWasteDisposalInput"
    THEN Scope3Accumulate(loc, "waste_generated", "solid_waste_disposal",
                          calculate_solid_waste_emissions(item))
    ELSE IF item.class = "WastewaterTreatmentInput"
    THEN Scope3Accumulate(loc, "waste_generated", "wastewater_treatment",
                          calculate_wastewater_emissions(item))
    ELSE [loc EXCEPT !.i = @ + 1]

\* Lines 528-540: one pass of the business-travel loop.
Scope3TravelBody(loc, item) ==
    IF item.class = "AirTravelInput"
    THEN Scope3Accumulate(loc, "business_travel", "air_travel",
                          calculate_air_travel_emissions(item))
    ELSE IF item.class = "RailTravelInput"
    THEN Scope3Accumulate(loc, "business_travel", "rail_travel",
                          calculate_rail_travel_emissions(item))
    ELSE IF item.class = "TaxiBusTravelInput"
    THEN LET r == calculate_taxi_bus_travel_emissions(item)
         IN  IF r.ok
             THEN Scope3Accumulate(loc, "business_travel", "taxi_bus_travel", r.val)
             ELSE [loc EXCEPT !.pc = "raised", !.err = Some(r.err)]
    ELSE [loc EXCEPT !.i = @ + 1]

----------------------------------------------------------------------------
(* Inputs *)

\* Most line items in the input of one scope call.
MaxItems == 3

SeqsUpTo(S, n) == UNION {[1..k -> S] : k \in 0..n}

OptOf(S) == {None} \cup {Some(v) : v \in S}

\* Every combination of unit, fuel type, source and presence of each override.
CombustionInputs ==
    [source : {"Heating", "Fleet"},
     fuel_type : FuelType,
     unit : Unit,
     amount : {RInt(100)},
     calorific_value_mj_kg : OptOf({RDec(400, 1)}),
     density_kg_l : OptOf({RDec(8, 1)}),
     distance_km : OptOf({RInt(150)}),
     vehicle_type : OptOf({"Passenger Car Diesel", "Truck"}),
     emission_factor_co2_kg_gj : OptOf({RDec(700, 1)}),
     emission_factor_ch4_kg_gj : OptOf({RDec(2, 4)}),
     emission_factor_n2o_kg_gj : OptOf({RDec(1, 4)})]

Combustion(source, fuel_type, unit, amount) ==
    [source |-> source, fuel_type |-> fuel_type, unit |-> unit, amount |-> amount,
     calorific_value_mj_kg |-> None, density_kg_l |-> None,
     distance_km |-> None, vehicle_type |-> None,
     emission_factor_co2_kg_gj |-> None, emission_factor_ch4_kg_gj |-> None,
     emission_factor_n2o_kg_gj |-> None]

\* The combustion records the Scope 1 inputs are built from; the last two fail.
CombustionSample ==
    {Combustion("Heating", "Diesel", "l", RInt(100)),
     Combustion("Heating", "Natural Gas", "m3", RInt(250)),
     [Combustion("Generators", "Coal", "t", RInt(2))
         EXCEPT !.calorific_value_mj_kg = Some(RDec(255, 1))],
     [Combustion("Fleet", "Diesel", "km", RInt(150))
         EXCEPT !.distance_km = Some(RInt(150)),
                !.vehicle_type = Some("Passenger Car Diesel")],
     Combustion("Heating", "Natural Gas", "t", RInt(5)),
     [Combustion("Heating", "Electricity", "l", RInt(40))
         EXCEPT !.calorific_value_mj_kg = Some(RDec(400, 1)),
                !.density_kg_l = Some(RDec(8, 1))]}

FugitiveInputs ==
    [source : {"Refrigerants"},
     refrigerant_type : RefrigerantType,
     amount_kg : {RInt(2), RDec(35, 1)},
     gwp_factor : OptOf({RInt(1500), RInt(2088)})]

\* The fugitive records the Scope 1 inputs are built from; the last one fails.
FugitiveSample ==
    {[source |-> "Refrigerants", refrigerant_type |-> "R407C",
      amount_kg |-> RInt(2), gwp_factor |-> None],
     [source |-> "Refrigerants", refrigerant_type |-> "R32",
      amount_kg |-> RDec(35, 1), gwp_factor |-> Some(RInt(2088))],
     [source |-> "Refrigerants", refrigerant_type |-> "Custom",
      amount_kg |-> RInt(2), gwp_factor |-> Some(RInt(1500))],
     [source |-> "Refrigerants", refrigerant_type |-> "Custom",
      amount_kg |-> RInt(2), gwp_factor |-> None]}

\* Mass triples (CO2, CH4, N2O) for calculate_co2e, which takes any floats:
\* the last three carry a negative mass.
Co2eInputs ==
    {<<RInt(10), RDec(5, 1), RDec(25, 2)>>,
     <<RDec(2618842, 4), RDec(106026, 9), RDec(212052, 9)>>,
     <<RZero, RInt(1), RZero>>,
     <<RZero, RZero, RInt(1)>>,
     <<RNeg(RInt(5)), RInt(1), RInt(1)>>,
     <<RInt(10), RNeg(RDec(5, 1)), RZero>>,
     <<RInt(10), RZero, RNeg(RInt(1))>>}

Scope1Inputs ==
    UNION {{[combustion_emissions |-> c, fugitive_emissions |-> f] :
               c \in [1..k -> CombustionSample],
               f \in SeqsUpTo(FugitiveSample, MaxItems - k)} : k \in 0..MaxItems}

\* The electricity amount 0.0 is a record that fails input validation.
Scope2Inputs ==
    [electricity : OptOf({[amount_kwh |-> v] : v \in {RInt(1000), RDec(2505, 1), RZero}}),
     district_heating : OptOf({[amount_gj |-> v] : v \in {RInt(10), RDec(125, 2)}})]

GoodsSample ==
    {[class |-> "WaterSupplyInput", volume_m3 |-> RInt(10)],
     [class |-> "PaperUsageInput", mass_kg |-> RInt(500), eco_labeled |-> FALSE],
     [class |-> "PaperUsageInput", mass_kg |-> RInt(500), eco_labeled |-> TRUE]}

WasteSample ==
    {[class |-> "SolidWasteDisposalInput", mass_kg |-> RInt(200)],
     [class |-> "WastewaterTreatmentInput", volume_m3 |-> RInt(5)]}

VehicleTypes ==
    {<<"t", "a", "x", "i">>, <<"T", "a", "x", "i">>, <<"T", "A", "X", "I">>,
     <<"b", "u", "s">>, <<"B", "u", "s">>, <<"B", "U", "S">>,
     <<"t", "r", "a", "m">>, <<"c", "a", "r">>, <<"t", "a", "x", "i", "s">>,
     <<"t", "a", "x">>, <<" ", "b", "u", "s">>, <<>>}

TaxiBusInputs ==
    [class : {"TaxiBusTravelInput"},
     distance_km : {RInt(12), RDec(305, 1)},
     vehicle_type : VehicleTypes]

AirInputs ==
    [class : {"AirTravelInput"},
     distance_km : {RInt(100), RInt(482), RInt(483), RInt(1000), RInt(3701),
                    RInt(3702), RInt(5000)},
     flight_class : {"economy", "business"}]

\* Mileages around and on the two class boundaries.
MilesInputs ==
    {RZero, RDec(5, 1), RInt(299), RDec(2999999, 4), RInt(300), RDec(3000001, 4),
     RInt(1000), RInt(2299), RDec(22999999, 4), RInt(2300), RDec(23000001, 4),
     RInt(9000)}

\* The travel records the Scope 3 inputs are built from; the last one fails.
TravelSample ==
    {[class |-> "AirTravelInput", distance_km |-> RInt(1000), flight_class |-> "economy"],
     [class |-> "RailTravelInput", distance_km |-> RInt(300)],
     [class |-> "TaxiBusTravelInput", distance_km |-> RInt(12),
      vehicle_type |-> <<"T", "a", "x", "i">>],
     [class |-> "TaxiBusTravelInput", distance_km |-> RInt(30),
      vehicle_type |-> <<"B", "U", "S">>],
     [class |-> "TaxiBusTravelInput", distance_km |-> RInt(5),
      vehicle_type |-> <<"t", "r", "a", "m">>]}

Scope3Inputs ==
    UNION {UNION {{[purchased_goods_services |-> g, waste_generated |-> w,
                    business_travel |-> t] :
                      g \in [1..a -> GoodsSample],
                      w \in [1..b -> WasteSample],
                      t \in SeqsUpTo(TravelSample, MaxItems - a - b)} :
                  b \in 0..(MaxItems - a)} : a \in 0..MaxItems}

----------------------------------------------------------------------------
(* State: one call of the engine at a time *)

VARIABLES
    fn,          \* the entry point being executed, "idle" between calls
    arg,         \* its input_data
    pc,          \* "idle", "running" (inside a loop), "returned" or "raised"
    i,           \* number of line items the running call has consumed
    total_co2e,  \* the local running total of the running call
    breakdown,   \* the local breakdown of the running call
    ret,         \* None, or Some(value returned to the caller)
    err,         \* None, or Some(message of the ValueError raised to the caller)
    prev,        \* None, or Some(input and outcome of the caller's previous call
                 \* with the same input)
    frames       \* the stack frame of each of several concurrent invocations

vars == <<fn, arg, pc, i, total_co2e, breakdown, ret, err, prev, frames>>

\* Number of concurrent invocations.
NProcs == 2

Procs == 1..NProcs

\* The frame of an invocation that has not been called.
IdleFrame ==
    [fn |-> "idle", arg |-> None, pc |-> "idle", i |-> 0, total_co2e |-> RZero,
     breakdown |-> <<>>, ret |-> None, err |-> None]

Init ==
    /\ fn = "idle"
    /\ arg = None
    /\ pc = "idle"
    /\ i = 0
    /\ total_co2e = RZero
    /\ breakdown = <<>>
    /\ ret = None
    /\ err = None
    /\ prev = None
    /\ frames = [p \in Procs |-> IdleFrame]

\* A function without a loop runs as one step: its outcome reaches the caller.
Deliver(name, input_data, result) ==
    /\ fn' = name
    /\ arg' = input_data
    /\ pc' = IF result.ok THEN "returned" ELSE "raised"
    /\ ret' = IF result.ok THEN Some(result.val) ELSE None
    /\ err' = IF result.ok THEN None ELSE Some(result.err)
    /\ UNCHANGED <<i, total_co2e, breakdown, frames>>

Outcome(name, input_data, result) ==
    Deliver(name, input_data, result) /\ UNCHANGED prev

CallCo2e ==
    /\ pc = "idle"
    /\ \E m \in Co2eInputs :
           Outcome("calculate_co2e", m, Return(calculate_co2e(m[1], m[2], m[3])))

CallCombustion ==
    /\ pc = "idle"
    /\ \E r \in CombustionInputs :
           Outcome("calculate_combustion_emissions", r, calculate_combustion_emissions(r))

CallFugitive ==
    /\ pc = "idle"
    /\ \E r \in FugitiveInputs :
           Outcome("calculate_fugitive_emissions", r, calculate_fugitive_emissions(r))

CallScope2 ==
    /\ pc = "idle"
    /\ \E r \in Scope2Inputs :
           Outcome("calculate_scope2_emissions", r, Return(calculate_scope2_emissions(r)))

CallHaulClass ==
    /\ pc = "idle"
    /\ \E m \in MilesInputs :
           Outcome("get_flight_haul_class", m, Return(get_flight_haul_class(m)))

CallAirTravel ==
    /\ pc = "idle"
    /\ \E r \in AirInputs :
           Outcome("calculate_air_travel_emissions", r,
                   Return(calculate_air_travel_emissions(r)))

CallTaxiBus ==
    /\ pc = "idle"
    /\ \E r \in TaxiBusInputs :
           Outcome("calculate_taxi_bus_travel_emissions", r,
                   calculate_taxi_bus_travel_emissions(r))

\* The locals of the running scope call, and their write-back.
Locals == [i |-> i, total_co2e |-> total_co2e, breakdown |-> breakdown,
           pc |-> pc, err |-> err]

WriteLocals(loc) ==
    /\ i' = loc.i
    /\ total_co2e' = loc.total_co2e
    /\ breakdown' = loc.breakdown
    /\ pc' = loc.pc
    /\ err' = loc.err

SetLocals(loc) == WriteLocals(loc) /\ UNCHANGED <<fn, arg, ret, prev, frames>>

\* Lines 276-277.
Scope1Begin ==
    /\ pc = "idle"
    /\ \E r \in Scope1Inputs : arg' = r
    /\ fn' = "calculate_scope1_emissions"
    /\ WriteLocals(Scope1Entry(Locals))
    /\ UNCHANGED <<ret, prev, frames>>

\* Lines 279-282.
Scope1CombustionStep ==
    /\ fn = "calculate_scope1_emissions" /\ pc = "running"
    /\ i < Len(arg.combustion_emissions)
    /\ SetLocals(Scope1LoopBody(Locals,
           calculate_combustion_emissions(arg.combustion_emissions[i + 1])))

\* Lines 284-287.
Scope1FugitiveStep ==
    /\ fn = "calculate_scope1_emissions" /\ pc = "running"
    /\ i >= Len(arg.combustion_emissions)
    /\ i < Len(arg.combustion_emissions) + Len(arg.fugitive_emissions)
    /\ SetLocals(Scope1LoopBody(Locals,
           calculate_fugitive_emissions(
               arg.fugitive_emissions[i - Len(arg.combustion_emissions) + 1])))

\* Lines 289-292.
Scope1Return ==
    /\ fn = "calculate_scope1_emissions" /\ pc = "running"
    /\ i = Len(arg.combustion_emissions) + Len(arg.fugitive_emissions)
    /\ pc' = "returned"
    /\ ret' = Some([total_co2e |-> total_co2e, breakdown |-> breakdown])
    /\ UNCHANGED <<fn, arg, i, total_co2e, breakdown, err, prev, frames>>

\* Lines 498-503.
Scope3Begin ==
    /\ pc = "idle"
    /\ \E r \in Scope3Inputs : arg' = r
    /\ fn' = "calculate_scope3_emissions"
    /\ WriteLocals(Scope3Entry(Locals))
    /\ UNCHANGED <<ret, prev, frames>>

NGoods == Len(arg.purchased_goods_services)
NWaste == Len(arg.waste_generated)
NTravel == Len(arg.business_travel)

\* Lines 506-514.
Scope3GoodsStep ==
    /\ fn = "calculate_scope3_emissions" /\ pc = "running"
    /\ i < NGoods
    /\ SetLocals(Scope3GoodsBody(Locals, arg.purchased_goods_services[i + 1]))

\* Lines 517-525.
Scope3WasteStep ==
    /\ fn = "calculate_scope3_emissions" /\ pc = "running"
    /\ i >= NGoods /\ i < NGoods + NWaste
    /\ SetLocals(Scope3WasteBody(Locals, arg.waste_generated[i - NGoods + 1]))

\* Lines 528-540.
Scope3TravelStep ==
    /\ fn = "calculate_scope3_emissions" /\ pc = "running"
    /\ i >= NGoods + NWaste /\ i < NGoods + NWaste + NTravel
    /\ SetLocals(Scope3TravelBody(Locals, arg.business_travel[i - NGoods - NWaste + 1]))

\* Lines 542-545.
Scope3Return ==
    /\ fn = "calculate_scope3_emissions" /\ pc = "running"
    /\ i = NGoods + NWaste + NTravel
    /\ pc' = "returned"
    /\ ret' = Some([total_co2e_emissions |-> total_co2e, breakdown |-> breakdown])
    /\ UNCHANGED <<fn, arg, i, total_co2e, breakdown, err, prev, frames>>

\* The caller has the outcome; the call's locals are gone.
Finish ==
    /\ pc \in {"returned", "raised"}
    /\ fn' = "idle"
    /\ arg' = None
    /\ pc' = "idle"
    /\ i' = 0
    /\ total_co2e' = RZero
    /\ breakdown' = <<>>
    /\ ret' = None
    /\ err' = None
    /\ prev' = None
    /\ UNCHANGED frames

Next ==
    \/ CallCo2e
    \/ CallCombustion
    \/ CallFugitive
    \/ CallScope2
    \/ CallHaulClass
    \/ CallAirTravel
    \/ CallTaxiBus
    \/ Scope1Begin
    \/ Scope1CombustionStep
    \/ Scope1FugitiveStep
    \/ Scope1Return
    \/ Scope3Begin
    \/ Scope3GoodsStep
    \/ Scope3WasteStep
    \/ Scope3TravelStep
    \/ Scope3Return
    \/ Finish

Spec == Init /\ [][Next]_vars

----------------------------------------------------------------------------
(* The scope calculators called twice with the same input *)

\* The caller keeps the first outcome and calls again with the same input
\* object; nothing is cleared between the two calls but what the function
\* itself sets at entry.
Remember == prev' = Some([arg |-> arg, ret |-> ret, err |-> err])

Scope1Again ==
    /\ fn = "calculate_scope1_emissions" /\ pc \in {"returned", "raised"}
    /\ prev = None
    /\ Remember
    /\ WriteLocals(Scope1Entry([Locals EXCEPT !.err = None]))
    /\ ret' = None
    /\ UNCHANGED <<fn, arg, frames>>

Scope2Again ==
    /\ fn = "calculate_scope2_emissions" /\ pc \in {"returned", "raised"}
    /\ prev = None
    /\ Remember
    /\ Deliver(fn, arg, Return(calculate_scope2_emissions(arg)))

Scope3Again ==
    /\ fn = "calculate_scope3_emissions" /\ pc \in {"returned", "raised"}
    /\ prev = None
    /\ Remember
    /\ WriteLocals(Scope3Entry([Locals EXCEPT !.err = None]))
    /\ ret' = None
    /\ UNCHANGED <<fn, arg, frames>>

NextTwice ==
    \/ CallScope2
    \/ Scope1Begin
    \/ Scope1CombustionStep
    \/ Scope1FugitiveStep
    \/ Scope1Return
    \/ Scope3Begin
    \/ Scope3GoodsStep
    \/ Scope3WasteStep
    \/ Scope3TravelStep
    \/ Scope3Return
    \/ Scope1Again
    \/ Scope2Again
    \/ Scope3Again
    \/ Finish

SpecTwice == Init /\ [][NextTwice]_vars

----------------------------------------------------------------------------
(* Concurrent invocations of the scope calculators, one loop pass at a time *)

\* The inputs of the concurrent invocations; a record of the third Scope 1
\* input and of the second Scope 3 input fails.
ConcScope1Inputs ==
    {[combustion_emissions |-> <<Combustion("Heating", "Diesel", "l", RInt(100))>>,
      fugitive_emissions |->
          <<[source |-> "Refrigerants", refrigerant_type |-> "R407C",
             amount_kg |-> RInt(2), gwp_factor |-> None]>>],
     [combustion_emissions |->
          <<Combustion("Heating", "Natural Gas", "m3", RInt(250)),
            Combustion("Heating", "Diesel", "l", RInt(100))>>,
      fugitive_emissions |-> <<>>],
     [combustion_emissions |->
          <<Combustion("Heating", "Diesel", "l", RInt(100)),
            Combustion("Heating", "Natural Gas", "t", RInt(5))>>,
      fugitive_emissions |->
          <<[source |-> "Refrigerants", refrigerant_type |-> "R32",
             amount_kg |-> RDec(35, 1), gwp_factor |-> Some(RInt(2088))]>>]}

ConcScope3Inputs ==
    {[purchased_goods_services |->
          <<[class |-> "WaterSupplyInput", volume_m3 |-> RInt(10)]>>,
      waste_generated |->
          <<[class |-> "SolidWasteDisposalInput", mass_kg |-> RInt(200)]>>,
      business_travel |->
          <<[class |-> "RailTravelInput", distance_km |-> RInt(300)]>>],
     [purchased_goods_services |-> <<>>,
      waste_generated |-> <<>>,
      business_travel |->
          <<[class |-> "TaxiBusTravelInput", distance_km |-> RInt(12),
             vehicle_type |-> <<"T", "a", "x", "i">>],
            [class |-> "TaxiBusTravelInput", distance_km |-> RInt(5),
             vehicle_type |-> <<"t", "r", "a", "m">>]>>]}

\* The locals an invocation works on are those of its own frame: total_co2e
\* and breakdown are local variables (lines 276-277, 498-503).
FrameOf_SharedTotal(fr, p) == [fr[p] EXCEPT !.total_co2e = fr[1].total_co2e]

FrameOf(fr, p) == fr[p]

Scope1Length(input_data) ==
    Len(input_data.combustion_emissions) + Len(input_data.fugitive_emissions)

\* Lines 279-287: the loop pass on the next record, combustion records first.
Scope1Step(loc, input_data) ==
    LET nc == Len(input_data.combustion_emissions)
    IN  IF loc.i < nc
        THEN Scope1LoopBody(loc,
                 calculate_combustion_emissions(input_data.combustion_emissions[loc.i + 1]))
        ELSE Scope1LoopBody(loc,
                 calculate_fugitive_emissions(input_data.fugitive_emissions[loc.i - nc + 1]))

Scope3Length(input_data) ==
    Len(input_data.purchased_goods_services) + Len(input_data.waste_generated)
        + Len(input_data.business_travel)

\* Lines 506-540: the loop pass on the next item, group after group.
Scope3Step(loc, input_data) ==
    LET ng == Len(input_data.purchased_goods_services)
        nw == Len(input_data.waste_generated)
    IN  IF loc.i < ng
        THEN Scope3GoodsBody(loc, input_data.purchased_goods_services[loc.i + 1])
        ELSE IF loc.i < ng + nw
        THEN Scope3WasteBody(loc, input_data.waste_generated[loc.i - ng + 1])
        ELSE Scope3TravelBody(loc, input_data.business_travel[loc.i - ng - nw + 1])

single == <<fn, arg, pc, i, total_co2e, breakdown, ret, err, prev>>

ConcScope1Begin(p) ==
    /\ frames[p].pc = "idle"
    /\ \E r \in ConcScope1Inputs :
           frames' = [frames EXCEPT ![p] =
                         Scope1Entry([@ EXCEPT !.fn = "calculate_scope1_emissions",
                                               !.arg = r])]
    /\ UNCHANGED single

ConcScope1Step(p) ==
    /\ frames[p].fn = "calculate_scope1_emissions" /\ frames[p].pc = "running"
    /\ frames[p].i < Scope1Length(frames[p].arg)
    /\ frames' = [frames EXCEPT ![p] = Scope1Step(FrameOf(frames, p), frames[p].arg)]
    /\ UNCHANGED single

ConcScope1Return(p) ==
    /\ frames[p].fn = "calculate_scope1_emissions" /\ frames[p].pc = "running"
    /\ frames[p].i = Scope1Length(frames[p].arg)
    /\ LET f == FrameOf(frames, p)
       IN  frames' = [frames EXCEPT ![p] =
                         [f EXCEPT !.pc = "returned",
                                   !.ret = Some([total_co2e |-> f.total_co2e,
                                                 breakdown |-> f.breakdown])]]
    /\ UNCHANGED single

ConcScope3Begin(p) ==
    /\ frames[p].pc = "idle"
    /\ \E r \in ConcScope3Inputs :
           frames' = [frames EXCEPT ![p] =
                         Scope3Entry([@ EXCEPT !.fn = "calculate_scope3_emissions",
                                               !.arg = r])]
    /\ UNCHANGED single

ConcScope3Step(p) ==
    /\ frames[p].fn = "calculate_scope3_emissions" /\ frames[p].pc = "running"
    /\ frames[p].i < Scope3Length(frames[p].arg)
    /\ frames' = [frames EXCEPT ![p] = Scope3Step(FrameOf(frames, p), frames[p].arg)]
    /\ UNCHANGED single

ConcScope3Return(p) ==
    /\ frames[p].fn = "calculate_scope3_emissions" /\ frames[p].pc = "running"
    /\ frames[p].i = Scope3Length(frames[p].arg)
    /\ LET f == FrameOf(frames, p)
       IN  frames' = [frames EXCEPT ![p] =
                         [f EXCEPT !.pc = "returned",
                                   !.ret = Some([total_co2e_emissions |-> f.total_co2e,
                                                 breakdown |-> f.breakdown])]]
    /\ UNCHANGED single

ConcFinish(p) ==
    /\ frames[p].pc \in {"returned", "raised"}
    /\ frames' = [frames EXCEPT ![p] = IdleFrame]
    /\ UNCHANGED single

NextConc ==
    \/ \E p \in Procs : ConcScope1Begin(p)
    \/ \E p \in Procs : ConcScope1Step(p)
    \/ \E p \in Procs : ConcScope1Return(p)
    \/ \E p \in Procs : ConcScope3Begin(p)
    \/ \E p \in Procs : ConcScope3Step(p)
    \/ \E p \in Procs : ConcScope3Return(p)
    \/ \E p \in Procs : ConcFinish(p)

SpecConc == Init /\ [][NextConc]_vars

----------------------------------------------------------------------------
(* Claims *)

IsCombustionCall == fn = "calculate_combustion_emissions"

\* C1: for every combustion record that calculate_combustion_emissions
\* accepts, the masses reported in details are energy_gj * EF_gas and the
\* returned co2e is energy_gj*EF_CO2 + energy_gj*EF_CH4*28 + energy_gj*EF_N2O*265,
\* which is mass_co2 + mass_ch4*28 + mass_n2o*265.
C1_Co2eOfCombustion ==
    (IsCombustionCall /\ pc = "returned") =>
        LET r == ret[1]
            E == r.details.energy_gj
            ef == CombustionFactors(arg).val
        IN  /\ REq(r.details.mass_co2, RMul(E, ef.ef_co2))
            /\ REq(r.details.mass_ch4, RMul(E, ef.ef_ch4))
            /\ REq(r.details.mass_n2o, RMul(E, ef.ef_n2o))
            /\ REq(r.co2e,
                   RAdd(RAdd(RMul(E, ef.ef_co2), RMul(RMul(E, ef.ef_ch4), RInt(28))),
                        RMul(RMul(E, ef.ef_n2o), RInt(265))))
            /\ REq(r.co2e,
                   RAdd(RAdd(r.details.mass_co2, RMul(r.details.mass_ch4, RInt(28))),
                        RMul(r.details.mass_n2o, RInt(265))))

\* 100 l of Diesel on the defaults: co2e = 261.943382508 kg.
C1_Witness ==
    /\ IsCombustionCall /\ pc = "returned"
    /\ arg = Combustion("Heating", "Diesel", "l", RInt(100))
    /\ REq(ret[1].co2e, RAdd(RInt(261), RDec(943382508, 9)))

\* Density and calorific value the claims expect for a record: the override
\* when supplied, otherwise the default of the record's fuel.
ExpectedDensity(rec) ==
    IF rec.density_kg_l # None THEN rec.density_kg_l[1]
    ELSE IF rec.fuel_type = "Petrol" THEN RDec(72, 2)
    ELSE RDec(82, 2)

ExpectedCalorific(rec) ==
    IF rec.calorific_value_mj_kg # None THEN rec.calorific_value_mj_kg[1]
    ELSE IF rec.fuel_type = "Diesel" THEN RDec(431, 1)
    ELSE IF rec.fuel_type = "Petrol" THEN RDec(443, 1)
    ELSE IF rec.fuel_type = "Heating Oil" THEN RDec(426, 1)
    ELSE IF rec.fuel_type = "Natural Gas" THEN RInt(38)
    ELSE RInt(24)

\* C8: details.energy_gj is amount*density*calorific/1000 for liquid fuels in
\* liters, amount*calorific/1000 for Natural Gas in m3 and
\* amount*1000*calorific/1000 for Coal in tonnes, density and calorific value
\* being the record's override or the fuel's default.
C8_EnergyOfCombustion ==
    (IsCombustionCall /\ pc = "returned") =>
        LET E == ret[1].details.energy_gj
            d == ExpectedDensity(arg)
            cv == ExpectedCalorific(arg)
        IN  /\ (arg.unit = "l" /\ arg.fuel_type \in {"Diesel", "Petrol", "Heating Oil"})
                   => REq(E, RDiv(RMul(RMul(arg.amount, d), cv), RInt(1000)))
            /\ (arg.unit = "m3" /\ arg.fuel_type = "Natural Gas")
                   => REq(E, RDiv(RMul(arg.amount, cv), RInt(1000)))
            /\ (arg.unit = "t" /\ arg.fuel_type = "Coal")
                   => REq(E, RDiv(RMul(RMul(arg.amount, RInt(1000)), cv), RInt(1000)))

\* 100 l of Diesel, density 0.82, calorific value 43.1: 3.5342 GJ.
C8_Witness ==
    /\ IsCombustionCall /\ pc = "returned"
    /\ arg = Combustion("Fleet", "Diesel", "l", RInt(100))
    /\ REq(ret[1].details.energy_gj, RDec(35342, 4))

IsScope1Call == fn = "calculate_scope1_emissions"

NCombustion == Len(arg.combustion_emissions)
NFugitive == Len(arg.fugitive_emissions)

\* The outcome of the k-th record of a Scope 1 input in processing order:
\* the combustion records, then the fugitive records.
Scope1Outcome(k) ==
    IF k <= NCombustion
    THEN calculate_combustion_emissions(arg.combustion_emissions[k])
    ELSE calculate_fugitive_emissions(arg.fugitive_emissions[k - NCombustion])

RECURSIVE SumCo2e(_)
SumCo2e(results) ==
    IF Len(results) = 0 THEN RZero
    ELSE RAdd(SumCo2e(SubSeq(results, 1, Len(results) - 1)),
              results[Len(results)].co2e)

\* C2: while calculate_scope1_emissions runs and when it has succeeded, the
\* breakdown holds exactly one EmissionResult per processed record, the
\* combustion records in input order followed by the fugitive records in
\* input order, and total_co2e equals the sum of the co2e of the breakdown
\* entries; on success every input record has been processed and that total
\* and breakdown are what is returned.
C2_Scope1TotalAndOrder ==
    (IsScope1Call /\ pc \in {"running", "returned"}) =>
        /\ Len(breakdown) = i
        /\ \A k \in 1..i :
              /\ Scope1Outcome(k).ok
              /\ breakdown[k] = Scope1Outcome(k).val
              /\ (k <= NCombustion) =>
                     /\ breakdown[k].fuel_type = Some(arg.combustion_emissions[k].fuel_type)
                     /\ breakdown[k].source = arg.combustion_emissions[k].source
              /\ (k > NCombustion) =>
                     breakdown[k].refrigerant_type =
                         Some(arg.fugitive_emissions[k - NCombustion].refrigerant_type)
        /\ REq(total_co2e, SumCo2e(breakdown))
        /\ (pc = "returned") =>
              /\ i = NCombustion + NFugitive
              /\ ret = Some([total_co2e |-> total_co2e, breakdown |-> breakdown])

\* Two different combustion records and a fugitive record, returned.
C2_Witness ==
    /\ IsScope1Call /\ pc = "returned"
    /\ NCombustion = 2 /\ NFugitive = 1
    /\ arg.combustion_emissions[1] # arg.combustion_emissions[2]
    /\ Len(ret[1].breakdown) = 3
    /\ ~RIsZero(ret[1].total_co2e)

IsScope3Call == fn = "calculate_scope3_emissions"

Scope3Groups == {"purchased_goods_services", "waste_generated", "business_travel"}

\* The line items of a Scope 3 input in processing order.
Scope3Item(k) ==
    IF k <= NGoods THEN arg.purchased_goods_services[k]
    ELSE IF k <= NGoods + NWaste THEN arg.waste_generated[k - NGoods]
    ELSE arg.business_travel[k - NGoods - NWaste]

Scope3GroupOf(k) ==
    IF k <= NGoods THEN "purchased_goods_services"
    ELSE IF k <= NGoods + NWaste THEN "waste_generated"
    ELSE "business_travel"

SubtypeOf(item) ==
    CASE item.class = "WaterSupplyInput" -> "water_supply"
      [] item.class = "PaperUsageInput" -> "paper_usage"
      [] item.class = "SolidWasteDisposalInput" -> "solid_waste_disposal"
      [] item.class = "WastewaterTreatmentInput" -> "wastewater_treatment"
      [] item.class = "AirTravelInput" -> "air_travel"
      [] item.class = "RailTravelInput" -> "rail_travel"
      [] item.class = "TaxiBusTravelInput" -> "taxi_bus_travel"

\* The outcome of one Scope 3 line item.
Scope3Outcome(item) ==
    CASE item.class = "WaterSupplyInput" -> Return(calculate_water_supply_emissions(item))
      [] item.class = "PaperUsageInput" -> Return(calculate_paper_usage_emissions(item))
      [] item.class = "SolidWasteDisposalInput" -> Return(calculate_solid_waste_emissions(item))
      [] item.class = "WastewaterTreatmentInput" -> Return(calculate_wastewater_emissions(item))
      [] item.class = "AirTravelInput" -> Return(calculate_air_travel_emissions(item))
      [] item.class = "RailTravelInput" -> Return(calculate_rail_travel_emissions(item))
      [] item.class = "TaxiBusTravelInput" -> calculate_taxi_bus_travel_emissions(item)

\* The sum of the emissions of the items of subtype s among the first n.
RECURSIVE SumOfSubtype(_, _)
SumOfSubtype(s, n) ==
    IF n = 0 THEN RZero
    ELSE IF SubtypeOf(Scope3Item(n)) = s
         THEN RAdd(SumOfSubtype(s, n - 1), Scope3Outcome(Scope3Item(n)).val)
         ELSE SumOfSubtype(s, n - 1)

RECURSIVE DictSum(_)
DictSum(d) ==
    IF DOMAIN d = {} THEN RZero
    ELSE LET k == CHOOSE x \in DOMAIN d : TRUE
         IN  RAdd(d[k], DictSum([x \in (DOMAIN d) \ {k} |-> d[x]]))

\* C3: while calculate_scope3_emissions runs and when it has succeeded, the
\* total equals the sum over all groups and subtypes of the breakdown values,
\* each subtype value is the sum of the emissions of the processed line items
\* of that subtype, and a subtype has an entry exactly when an item of it was
\* processed; on success that total and breakdown are what is returned.
C3_Scope3TotalIsSumOfBreakdown ==
    (IsScope3Call /\ pc \in {"running", "returned"}) =>
        /\ REq(total_co2e,
               RAdd(RAdd(DictSum(breakdown.purchased_goods_services),
                         DictSum(breakdown.waste_generated)),
                    DictSum(breakdown.business_travel)))
        /\ \A g \in Scope3Groups :
              /\ DOMAIN breakdown[g] =
                     {SubtypeOf(Scope3Item(k)) : k \in {j \in 1..i : Scope3GroupOf(j) = g}}
              /\ \A s \in DOMAIN breakdown[g] :
                     REq(breakdown[g][s], SumOfSubtype(s, i))
        /\ (pc = "returned") =>
              /\ i = NGoods + NWaste + NTravel
              /\ ret = Some([total_co2e_emissions |-> total_co2e,
                             breakdown |-> breakdown])

\* Two paper items summed into one entry, and a travel item, returned.
C3_Witness ==
    /\ IsScope3Call /\ pc = "returned"
    /\ NGoods = 2 /\ NTravel = 1
    /\ arg.purchased_goods_services[1].class = "PaperUsageInput"
    /\ arg.purchased_goods_services[2].class = "PaperUsageInput"
    /\ arg.purchased_goods_services[1] # arg.purchased_goods_services[2]
    /\ DOMAIN ret[1].breakdown.purchased_goods_services = {"paper_usage"}
    /\ DOMAIN ret[1].breakdown.business_travel # {}

\* The position of the first failing item of the running scope call, 0 if none.
FirstFailing(ok(_), n) ==
    IF \E k \in 1..n : ~ok(k)
    THEN CHOOSE k \in 1..n : ~ok(k) /\ \A j \in 1..(k - 1) : ok(j)
    ELSE 0

Scope1Ok(k) == Scope1Outcome(k).ok
Scope3Ok(k) == Scope3Outcome(Scope3Item(k)).ok

\* What the caller of a scope call may observe, F being the position of the
\* first failing item: no item at or after F is ever consumed; the call ends
\* raised exactly when F exists, with the error of item F, having consumed the
\* F - 1 items before it, and nothing is returned.
FailsAtFirst(F, errOfF) ==
    /\ (pc = "running") => (F = 0 \/ i < F)
    /\ (pc = "returned") => F = 0
    /\ (pc = "raised") =>
          /\ F # 0
          /\ i = F - 1
          /\ err = Some(errOfF)
          /\ ret = None

\* C4: if a line item of a scope call fails (a combustion or fugitive record
\* in Scope 1, a taxi/bus record in Scope 3), the call fails with that item's
\* error at the first failing item in processing order: no later item is
\* processed and no total or breakdown is returned.
C4_FirstFailureIsFatal ==
    /\ IsScope1Call =>
          LET F == FirstFailing(Scope1Ok, NCombustion + NFugitive)
          IN  FailsAtFirst(F, IF F = 0 THEN "" ELSE Scope1Outcome(F).err)
    /\ IsScope3Call =>
          LET F == FirstFailing(Scope3Ok, NGoods + NWaste + NTravel)
          IN  FailsAtFirst(F, IF F = 0 THEN ""
                                ELSE Scope3Outcome(Scope3Item(F)).err)

\* A Scope 1 call of three records raised on the second one.
C4_Witness ==
    /\ IsScope1Call /\ pc = "raised"
    /\ NCombustion + NFugitive = 3
    /\ i = 1
    /\ Len(breakdown) = 1
    /\ ret = None

\* The unit/fuel-type combinations the specification lists as supported.
SupportedCombination(rec) ==
    \/ rec.unit = "l" /\ rec.fuel_type \in {"Diesel", "Petrol", "Heating Oil"}
    \/ rec.unit = "m3" /\ rec.fuel_type = "Natural Gas"
    \/ rec.unit = "t" /\ rec.fuel_type = "Coal"
    \/ rec.unit = "km" /\ rec.source = "Fleet"

\* C5: calculate_combustion_emissions fails for every record whose
\* unit/fuel-type combination is unsupported, whatever overrides it carries.
C5_UnsupportedCombinationFails ==
    (IsCombustionCall /\ ~SupportedCombination(arg)) =>
        (pc = "raised" /\ ret = None)

IsFugitiveCall == fn = "calculate_fugitive_emissions"

\* The GWP the specification gives a fugitive record: the override when
\* supplied, otherwise the table value of the refrigerant type.
ExpectedGwp(rec) ==
    IF rec.gwp_factor # None THEN rec.gwp_factor[1]
    ELSE IF rec.refrigerant_type = "R407C" THEN RInt(1624)
    ELSE IF rec.refrigerant_type = "R32" THEN RInt(677)
    ELSE RInt(1924)

\* C6: calculate_fugitive_emissions fails for a Custom refrigerant without a
\* gwp_factor override; in every other case it returns co2e = amount_kg * GWP,
\* GWP being the override when supplied and otherwise the table value of the
\* refrigerant type (R407C 1624, R32 677, R410A 1924).
C6_FugitiveGwp ==
    IsFugitiveCall =>
        IF arg.refrigerant_type = "Custom" /\ arg.gwp_factor = None
        THEN pc = "raised" /\ ret = None /\ err # None
        ELSE /\ pc = "returned"
             /\ REq(ret[1].co2e, RMul(arg.amount_kg, ExpectedGwp(arg)))
             /\ REq(ret[1].details.gwp_factor, ExpectedGwp(arg))

\* Custom with override 1500 and amount_kg 2 gives 3000.
C6_Witness ==
    /\ IsFugitiveCall /\ pc = "returned"
    /\ arg.refrigerant_type = "Custom"
    /\ arg.gwp_factor = Some(RInt(1500))
    /\ arg.amount_kg = RInt(2)
    /\ REq(ret[1].co2e, RInt(3000))

\* The haul class and the factor triple (CO2 kg/mile, CH4 g/mile, N2O g/mile)
\* the specification gives a mileage.
ExpectedHaulClass(miles) ==
    CASE RLt(miles, RInt(300)) -> "Short Haul"
      [] RLe(RInt(300), miles) /\ RLt(miles, RInt(2300)) -> "Medium Haul"
      [] RLe(RInt(2300), miles) -> "Long Haul"

ExpectedAirFactors(miles) ==
    CASE ExpectedHaulClass(miles) = "Short Haul" -> <<RDec(15, 2), RDec(1, 3), RDec(1, 3)>>
      [] ExpectedHaulClass(miles) = "Medium Haul" -> <<RDec(12, 2), RDec(8, 4), RDec(8, 4)>>
      [] ExpectedHaulClass(miles) = "Long Haul" -> <<RDec(10, 2), RDec(5, 4), RDec(5, 4)>>

IsScope2Call == fn = "calculate_scope2_emissions"

\* C9: calculate_scope2_emissions computes electricity as kWh/1000*698 and
\* district heating as GJ*95.05; an absent input has no key in the breakdown
\* and adds nothing, a present input has exactly its own key, and the total
\* is the sum of the present entries.
C9_Scope2 ==
    IsScope2Call =>
        LET out == ret[1]
            hasE == arg.electricity # None
            hasH == arg.district_heating # None
            e == IF hasE
                 THEN RMul(RDiv(arg.electricity[1].amount_kwh, RInt(1000)), RInt(698))
                 ELSE RZero
            h == IF hasH
                 THEN RMul(arg.district_heating[1].amount_gj, RDec(9505, 2))
                 ELSE RZero
        IN  /\ pc = "returned"
            /\ DOMAIN out.breakdown =
                   (IF hasE THEN {"electricity"} ELSE {}) \cup
                   (IF hasH THEN {"district_heating"} ELSE {})
            /\ hasE => REq(out.breakdown["electricity"], e)
            /\ hasH => REq(out.breakdown["district_heating"], h)
            /\ REq(out.total_co2_emissions, RAdd(e, h))
            /\ REq(out.total_co2_emissions, DictSum(out.breakdown))

\* 1000 kWh alone gives total 698 and the single key electricity.
C9_Witness ==
    /\ IsScope2Call /\ pc = "returned"
    /\ arg.electricity = Some([amount_kwh |-> RInt(1000)])
    /\ arg.district_heating = None
    /\ REq(ret[1].total_co2_emissions, RInt(698))
    /\ DOMAIN ret[1].breakdown = {"electricity"}

IsTaxiBusCall == fn = "calculate_taxi_bus_travel_emissions"

\* s spells the lower-case word w, letter case ignored.
SpellsIgnoringCase(s, w) ==
    /\ Len(s) = Len(w)
    /\ \A k \in 1..Len(w) :
          \/ s[k] = w[k]
          \/ \E n \in 1..Len(LowerLetters) :
                LowerLetters[n] = w[k] /\ UpperLetters[n] = s[k]

\* C10: calculate_taxi_bus_travel_emissions returns distance_km*0.2 when
\* vehicle_type is 'taxi' ignoring case, distance_km*0.1 when it is 'bus'
\* ignoring case, and fails with the unsupported-vehicle-type error for every
\* other string.
C10_TaxiBusDispatch ==
    IsTaxiBusCall =>
        IF SpellsIgnoringCase(arg.vehicle_type, <<"t", "a", "x", "i">>)
        THEN pc = "returned" /\ REq(ret[1], RMul(arg.distance_km, RDec(2, 1)))
        ELSE IF SpellsIgnoringCase(arg.vehicle_type, <<"b", "u", "s">>)
        THEN pc = "returned" /\ REq(ret[1], RMul(arg.distance_km, RDec(1, 1)))
        ELSE /\ pc = "raised" /\ ret = None
             /\ err = Some("Unsupported vehicle type for taxi/bus")

\* 'TAXI' over 12 km gives 2.4.
C10_Witness ==
    /\ IsTaxiBusCall /\ pc = "returned"
    /\ arg.vehicle_type = <<"T", "A", "X", "I">>
    /\ arg.distance_km = RInt(12)
    /\ REq(ret[1], RDec(24, 1))

IsCo2eCall == fn = "calculate_co2e"

\* C13: when any of mass_co2, mass_ch4 or mass_n2o is negative,
\* calculate_co2e reports an error instead of returning a value.
C13_Co2eRejectsNegative ==
    (IsCo2eCall /\ (arg[1].neg \/ arg[2].neg \/ arg[3].neg)) =>
        (pc = "raised" /\ ret = None)

\* The per-km consumption constants of the Constants Table, by vehicle type:
\* it holds one, for the passenger car on diesel (60 g/km).
ConsumptionOf(vehicle_type) ==
    IF vehicle_type = "Passenger Car Diesel" THEN Some(RInt(60)) ELSE None

IsFleetDistance(rec) == rec.unit = "km" /\ rec.source = "Fleet"

\* C14: in the fleet-distance branch (unit km, source 'Fleet') the call fails
\* when distance_km or vehicle_type is absent; otherwise the fuel mass is
\* distance_km times the per-km consumption constant of the declared
\* vehicle_type, the mass is converted to liters via the density, and the
\* energy is liters * density * calorific / 1000.
C14_FleetUsesVehicleTypeConstant ==
    (IsCombustionCall /\ IsFleetDistance(arg)) =>
        IF arg.distance_km = None \/ arg.vehicle_type = None
        THEN pc = "raised" /\ ret = None
        ELSE (pc = "returned") =>
                LET c == ConsumptionOf(arg.vehicle_type[1])
                    d == IF arg.density_kg_l # None
                         THEN arg.density_kg_l[1] ELSE RDec(82, 2)
                    cv == IF arg.calorific_value_mj_kg # None
                          THEN arg.calorific_value_mj_kg[1] ELSE RDec(431, 1)
                IN  /\ c # None
                    /\ LET mass_kg == RMul(arg.distance_km[1], RDiv(c[1], RInt(1000)))
                           liters == RDiv(mass_kg, d)
                       IN  REq(ret[1].details.energy_gj,
                               RDiv(RMul(RMul(liters, d), cv), RInt(1000)))

\* The Constants Table keyed by fuel type: a default, or None where the table
\* has none for that fuel.  Heating Oil has the density the code assumes for
\* it (line 151).
TableDensity(fuel_type) ==
    CASE fuel_type = "Diesel" -> Some(RDec(82, 2))
      [] fuel_type = "Petrol" -> Some(RDec(72, 2))
      [] fuel_type = "Heating Oil" -> Some(RDec(82, 2))
      [] OTHER -> None

\* The calorific default of a fuel type in a branch: MJ/kg for the liquid
\* fuels (liters and fleet branches), MJ/m3 for Natural Gas (m3 branch),
\* MJ/kg for Coal (tonnes branch).
TableCalorific(fuel_type, branch) ==
    CASE fuel_type = "Natural Gas" /\ branch = "m3" -> Some(RInt(38))
      [] fuel_type = "Heating Oil" /\ branch \in {"liters", "fleet"} -> Some(RDec(426, 1))
      [] fuel_type = "Diesel" /\ branch \in {"liters", "fleet"} -> Some(RDec(431, 1))
      [] fuel_type = "Petrol" /\ branch \in {"liters", "fleet"} -> Some(RDec(443, 1))
      [] fuel_type = "Coal" /\ branch = "tonnes" -> Some(RInt(24))
      [] OTHER -> None

\* The triple (CO2, CH4, N2O) in kg/GJ.
TableFactors(fuel_type) ==
    CASE fuel_type = "Natural Gas" -> Some(<<RDec(561, 1), RDec(1, 4), RDec(2, 5)>>)
      [] fuel_type = "Heating Oil" -> Some(<<RDec(741, 1), RDec(3, 5), RDec(6, 5)>>)
      [] fuel_type = "Diesel" -> Some(<<RDec(741, 1), RDec(3, 5), RDec(6, 5)>>)
      [] fuel_type = "Petrol" -> Some(<<RDec(693, 1), RDec(3, 5), RDec(5, 5)>>)
      [] fuel_type = "Coal" -> Some(<<RDec(946, 1), RDec(1, 3), RDec(1, 4)>>)
      [] OTHER -> None

\* Override when supplied, otherwise the table default, otherwise None.
Resolve(override, default) == IF override # None THEN override ELSE default

\* The branch of calculate_combustion_emissions a record enters and gets
\* past the branch's own required-field check; "none" otherwise.
BranchOf(rec) ==
    IF rec.unit = "l" THEN "liters"
    ELSE IF rec.unit = "m3" /\ rec.fuel_type = "Natural Gas" THEN "m3"
    ELSE IF rec.unit = "t" /\ rec.fuel_type = "Coal" THEN "tonnes"
    ELSE IF IsFleetDistance(rec) /\ rec.distance_km # None /\ rec.vehicle_type # None
    THEN "fleet"
    ELSE "none"

\* C15: in every branch of calculate_combustion_emissions each of density,
\* calorific value and the three emission factors is the record's override
\* when supplied and otherwise the default of the record's own fuel type; when
\* a value the branch needs has neither, the call fails, and no default of
\* another fuel type is substituted.
C15_DefaultsOfOwnFuelType ==
    (IsCombustionCall /\ BranchOf(arg) # "none") =>
        LET b == BranchOf(arg)
            d == Resolve(arg.density_kg_l, TableDensity(arg.fuel_type))
            cv == Resolve(arg.calorific_value_mj_kg, TableCalorific(arg.fuel_type, b))
            t == TableFactors(arg.fuel_type)
            c == Resolve(arg.emission_factor_co2_kg_gj, IF t = None THEN None ELSE Some(t[1][1]))
            h == Resolve(arg.emission_factor_ch4_kg_gj, IF t = None THEN None ELSE Some(t[1][2]))
            n == Resolve(arg.emission_factor_n2o_kg_gj, IF t = None THEN None ELSE Some(t[1][3]))
            missing == \/ cv = None
                       \/ (b \in {"liters", "fleet"} /\ d = None)
                       \/ c = None \/ h = None \/ n = None
        IN  IF missing
            THEN pc = "raised" /\ ret = None
            ELSE /\ pc = "returned"
                 /\ LET E == ret[1].details.energy_gj
                        expected ==
                            CASE b = "liters" ->
                                    RDiv(RMul(RMul(arg.amount, d[1]), cv[1]), RInt(1000))
                              [] b = "m3" -> RDiv(RMul(arg.amount, cv[1]), RInt(1000))
                              [] b = "tonnes" ->
                                    RDiv(RMul(RMul(arg.amount, RInt(1000)), cv[1]), RInt(1000))
                              [] b = "fleet" ->
                                    RDiv(RMul(RMul(RDiv(RMul(arg.distance_km[1], RDec(6, 2)),
                                                        d[1]), d[1]), cv[1]), RInt(1000))
                    IN  /\ REq(E, expected)
                        /\ REq(ret[1].details.mass_co2, RMul(E, c[1]))
                        /\ REq(ret[1].details.mass_ch4, RMul(E, h[1]))
                        /\ REq(ret[1].details.mass_n2o, RMul(E, n[1]))

Positive(x) == RLt(RZero, x)

OptPositive(o) == o = None \/ Positive(o[1])

\* Valid records: amounts and supplied overrides are strictly positive.
ValidCombustion(r) ==
    /\ Positive(r.amount)
    /\ OptPositive(r.calorific_value_mj_kg) /\ OptPositive(r.density_kg_l)
    /\ OptPositive(r.distance_km)
    /\ OptPositive(r.emission_factor_co2_kg_gj)
    /\ OptPositive(r.emission_factor_ch4_kg_gj)
    /\ OptPositive(r.emission_factor_n2o_kg_gj)

ValidFugitive(r) == Positive(r.amount_kg) /\ OptPositive(r.gwp_factor)

ValidScope1(input_data) ==
    /\ \A k \in DOMAIN input_data.combustion_emissions :
           ValidCombustion(input_data.combustion_emissions[k])
    /\ \A k \in DOMAIN input_data.fugitive_emissions :
           ValidFugitive(input_data.fugitive_emissions[k])

ValidScope2(input_data) ==
    /\ input_data.electricity # None => Positive(input_data.electricity[1].amount_kwh)
    /\ input_data.district_heating # None =>
           Positive(input_data.district_heating[1].amount_gj)

ValidScope3Item(r) ==
    CASE r.class \in {"WaterSupplyInput", "WastewaterTreatmentInput"} ->
            Positive(r.volume_m3)
      [] r.class \in {"PaperUsageInput", "SolidWasteDisposalInput"} ->
            Positive(r.mass_kg)
      [] OTHER -> Positive(r.distance_km)

ValidScope3(input_data) ==
    /\ \A k \in DOMAIN input_data.purchased_goods_services :
           ValidScope3Item(input_data.purchased_goods_services[k])
    /\ \A k \in DOMAIN input_data.waste_generated :
           ValidScope3Item(input_data.waste_generated[k])
    /\ \A k \in DOMAIN input_data.business_travel :
           ValidScope3Item(input_data.business_travel[k])

\* With valid records every per-record CO2e and every breakdown entry a scope
\* calculator holds or returns is strictly positive, and the returned total is
\* zero exactly when the input has no line items.
C16_PositiveEntries ==
    /\ (IsScope1Call /\ ValidScope1(arg)) =>
           /\ \A k \in DOMAIN breakdown : Positive(breakdown[k].co2e)
           /\ pc = "returned" =>
                  /\ \A k \in DOMAIN ret[1].breakdown :
                         Positive(ret[1].breakdown[k].co2e)
                  /\ RIsZero(ret[1].total_co2e) <=> (NCombustion + NFugitive = 0)
                  /\ ~ret[1].total_co2e.neg
    /\ (IsScope2Call /\ ValidScope2(arg)) =>
           /\ \A k \in DOMAIN ret[1].breakdown : Positive(ret[1].breakdown[k])
           /\ RIsZero(ret[1].total_co2_emissions) <=>
                  (arg.electricity = None /\ arg.district_heating = None)
           /\ ~ret[1].total_co2_emissions.neg
    /\ (IsScope3Call /\ ValidScope3(arg)) =>
           /\ \A g \in Scope3Groups : \A k \in DOMAIN breakdown[g] :
                  Positive(breakdown[g][k])
           /\ pc = "returned" =>
                  /\ \A g \in Scope3Groups : \A k \in DOMAIN ret[1].breakdown[g] :
                         Positive(ret[1].breakdown[g][k])
                  /\ RIsZero(ret[1].total_co2e_emissions) <=>
                         (NGoods + NWaste + NTravel = 0)
                  /\ ~ret[1].total_co2e_emissions.neg

\* A step of a running scope calculator on valid records does not decrease
\* the running total.
C16_TotalNeverDecreases ==
    ((IsScope1Call /\ ValidScope1(arg)) \/ (IsScope3Call /\ ValidScope3(arg)))
        /\ pc = "running"
    => RLe(total_co2e, total_co2e')

C11_SameOutcomeTwice ==
    (prev # None /\ pc \in {"returned", "raised"}) =>
        /\ ret = prev[1].ret
        /\ err = prev[1].err
        /\ arg = prev[1].arg

\* Second calls have completed: a Scope 1 call that returned a total over
\* three records, twice.
C11_Witness ==
    /\ prev # None /\ IsScope1Call /\ pc = "returned"
    /\ Len(ret[1].breakdown) = 3
    /\ prev[1].ret = ret

\* The frame of an invocation that runs alone, after k loop passes.
RECURSIVE Scope1After(_, _)
Scope1After(input_data, k) ==
    IF k = 0
    THEN Scope1Entry([IdleFrame EXCEPT !.fn = "calculate_scope1_emissions",
                                       !.arg = input_data])
    ELSE Scope1Step(Scope1After(input_data, k - 1), input_data)

RECURSIVE Scope3After(_, _)
Scope3After(input_data, k) ==
    IF k = 0
    THEN Scope3Entry([IdleFrame EXCEPT !.fn = "calculate_scope3_emissions",
                                       !.arg = input_data])
    ELSE Scope3Step(Scope3After(input_data, k - 1), input_data)

\* The frame an invocation would have alone at the point frame f is at: after
\* f.i successful passes, after the failing pass, or after the return.
Alone(f) ==
    LET k == IF f.pc = "raised" THEN f.i + 1 ELSE f.i
        s1 == f.fn = "calculate_scope1_emissions"
        a == IF s1 THEN Scope1After(f.arg, k) ELSE Scope3After(f.arg, k)
        n == IF s1 THEN Scope1Length(f.arg) ELSE Scope3Length(f.arg)
    IN  IF f.pc = "returned" /\ k = n
        THEN [a EXCEPT !.pc = "returned",
                       !.ret = Some(IF s1
                                    THEN [total_co2e |-> a.total_co2e,
                                          breakdown |-> a.breakdown]
                                    ELSE [total_co2e_emissions |-> a.total_co2e,
                                          breakdown |-> a.breakdown])]
        ELSE a

\* C12: when invocations of the scope calculators run concurrently with their
\* per-record steps interleaved, the running total, the breakdown, the error
\* and the returned value of each are those of the same invocation running
\* alone: no invocation reads or writes the totals of another.
C12_ConcurrentAsAlone ==
    \A p \in Procs : frames[p].fn # "idle" => frames[p] = Alone(frames[p])

\* Two invocations are in the middle of their loops at the same time, on
\* different inputs, each with a running total of its own.
C12_Witness ==
    /\ frames[1].pc = "running" /\ frames[1].i = 1
    /\ frames[2].pc = "running" /\ frames[2].i = 1
    /\ frames[1].fn = "calculate_scope1_emissions"
    /\ frames[2].fn = "calculate_scope1_emissions"
    /\ ~REq(frames[1].total_co2e, frames[2].total_co2e)

====
